---- MODULE Spec2Model ----
(***************************************************************************)
(* A model of akita's src/main.js: the functions that turn the origin      *)
(* visit records of the data layer into ranked lists, percentages and      *)
(* payment estimates for the UI.                                           *)
(*                                                                         *)
(* JavaScript values are tagged records.  Numbers that come out of a       *)
(* division or of the multiplication by the stream rate are kept as exact  *)
(* non-negative rationals, plus the two IEEE-754 specials the code can     *)
(* produce (NaN and +Infinity).  Where the double's binary representation  *)
(* decides an outcome (toFixed on an exact decimal tie) the model keeps    *)
(* both outcomes.                                                          *)
(***************************************************************************)
EXTENDS Integers, Sequences, FiniteSets, TLC

VARIABLES
    store,        \* what the Data Provider holds: JS null or the origin list
    engine,       \* the JavaScript engine whose Array.prototype.sort runs
    pc,           \* per call: "idle", "awaiting", "resolved", "done"
    fn,           \* per call: which of the two top-origins functions
    nTopOrigins,  \* per call: the argument
    heap,         \* per call: the list object getOriginDataList resolved to
    result,       \* per call: the value the promise of the call resolved to
    pure          \* the last call of a synchronous helper: name, input, output

vars == <<store, engine, pc, fn, nTopOrigins, heap, result, pure>>

-----------------------------------------------------------------------------
(* Bounds of the model.                                                    *)

\* Longest origin list the Data Provider holds in Spec.
MaxLen == 3

\* Longest origin list the Data Provider holds in SpecConc (two calls in flight).
MaxConcLen == 2

\* Largest value of a field of AkitaOriginStats / originVisitData in SpecPure.
MaxStat == 3

\* Payment estimates are taken at every multiple of half a cent up to this
\* many, and one millisecond either side of it.
MaxHalfCents == 4

-----------------------------------------------------------------------------
(* JavaScript values.                                                      *)

Null == [tag |-> "null"]

Undefined == [tag |-> "undefined"]

Bool(b) == [tag |-> "boolean", b |-> b]

\* An array object: its elements, in order.
List(items) == [tag |-> "list", items |-> items]

\* A JS string, as its sequence of characters.
Str(chars) == [tag |-> "string", chars |-> chars]

\* A finite, non-negative JS number num/den.
Rat(num, den) == [tag |-> "number", num |-> num, den |-> den, k |-> "fin"]

Num(i) == Rat(i, 1)

NaN == [tag |-> "number", k |-> "nan"]

Infinity == [tag |-> "number", k |-> "inf"]

IsFinite(x) == x.tag = "number" /\ x.k = "fin"

\* ToBoolean on the values the model holds: null, undefined, false, 0 and NaN
\* are falsy; every object (an empty array or object too) is truthy.
Truthy(x) ==
    CASE x.tag = "null" -> FALSE
      [] x.tag = "undefined" -> FALSE
      [] x.tag = "boolean" -> x.b
      [] x.tag = "number" -> x.k = "inf" \/ (x.k = "fin" /\ x.num # 0)
      [] x.tag = "string" -> x.chars # <<>>
      [] OTHER -> TRUE

\* x / y on non-negative numbers, as IEEE-754 defines it.
Div(x, y) ==
    CASE x.k = "nan" \/ y.k = "nan" -> NaN
      [] x.k = "inf" /\ y.k = "inf" -> NaN
      [] x.k = "inf" -> Infinity
      [] y.k = "inf" -> Num(0)
      [] y.num = 0 /\ x.num = 0 -> NaN
      [] y.num = 0 -> Infinity
      [] OTHER -> Rat(x.num * y.den, x.den * y.num)

\* The sign of x - y (0 for NaN: sort reads a NaN comparison as +0).
SignOfDifference(x, y) ==
    CASE x.k = "nan" \/ y.k = "nan" -> 0
      [] x.k = "inf" /\ y.k = "inf" -> 0
      [] x.k = "inf" -> 1
      [] y.k = "inf" -> -1
      [] x.num * y.den > y.num * x.den -> 1
      [] x.num * y.den < y.num * x.den -> -1
      [] OTHER -> 0

\* x >= y and x <= y; every comparison with NaN is false.
Geq(x, y) ==
    CASE x.k = "nan" \/ y.k = "nan" -> FALSE
      [] x.k = "inf" -> TRUE
      [] y.k = "inf" -> FALSE
      [] OTHER -> x.num * y.den >= y.num * x.den

Leq(x, y) == Geq(y, x)

-----------------------------------------------------------------------------
(* The data model: AkitaOriginData records.                                *)

VisitData(t, v) == [monetizedTimeSpent |-> t, numberOfVisits |-> v]

OriginData(o, vd) == [origin |-> o, originVisitData |-> vd]

\* The visit data the Data Provider's origins are drawn from.  Need ratios:
\* 10, 11.875 (close to 10, fewer visits), 18 (close to neither), 20 (close
\* to 18, the same time as the first), 10 again with fewer visits, and the
\* origins with no time or no visits (ratios NaN, 0 and Infinity).
SampleVisitData ==
    { VisitData(100, 10), VisitData(95, 8), VisitData(90, 5), VisitData(100, 5),
      VisitData(50, 5), VisitData(0, 0), VisitData(0, 1), VisitData(1, 0) }

RECURSIVE SeqsUpTo(_, _)
SeqsUpTo(S, n) ==
    IF n = 0 THEN { <<>> }
    ELSE LET shorter == SeqsUpTo(S, n - 1)
         IN  shorter \cup { Append(s, x) : s \in { q \in shorter : Len(q) = n - 1 }, x \in S }

\* The origin lists of at most n origins; an origin is named by its place in
\* the Data Provider's list, so the origins of a list are distinct.
OriginLists(n) ==
    { [i \in 1..Len(s) |-> OriginData(i, s[i])] : s \in SeqsUpTo(SampleVisitData, n) }

-----------------------------------------------------------------------------
(* Array.prototype.sort.  With a comparator that is not consistent the     *)
(* order it leaves is implementation-defined, so the model carries the     *)
(* engine: V8 (Chrome, Node) and SpiderMonkey (Firefox) hand the two       *)
(* elements to the comparator in opposite orders.  Both engines sort an    *)
(* array this short by insertion.                                          *)

Engines == { "v8", "spidermonkey" }

\* b.originVisitData.monetizedTimeSpent - a.originVisitData.monetizedTimeSpent
TimeCompareFlipped(a, b) ==
    SignOfDifference(Num(a.originVisitData.monetizedTimeSpent),
                     Num(b.originVisitData.monetizedTimeSpent))

TimeCompare(a, b) ==
    SignOfDifference(Num(b.originVisitData.monetizedTimeSpent),
                     Num(a.originVisitData.monetizedTimeSpent))

NEEDS_LOVE_MAGIC_NUMBER_MARGIN == Rat(1, 4)

NEEDS_LOVE_MAGIC_NUMBER == Rat(1, 1)

\* x - y on finite numbers with x >= y.
Minus(x, y) == Rat(x.num * y.den - y.num * x.den, x.den * y.den)

\* monetizedTimeSpent / numberOfVisits
needsLoveRatio(a) ==
    Div(Num(a.originVisitData.monetizedTimeSpent), Num(a.originVisitData.numberOfVisits))

\* The test of the comparator's outer if.
InLoveWindow(ratioComparison) ==
    /\ Geq(ratioComparison, Minus(NEEDS_LOVE_MAGIC_NUMBER, NEEDS_LOVE_MAGIC_NUMBER_MARGIN))
    /\ Leq(ratioComparison, NEEDS_LOVE_MAGIC_NUMBER)

LoveCompareDescending(a, b) ==
    LET ratioComparison == Div(needsLoveRatio(a), needsLoveRatio(b))
    IN  IF InLoveWindow(ratioComparison)
        THEN IF a.originVisitData.numberOfVisits > b.originVisitData.numberOfVisits
             THEN 1
             ELSE -1
        ELSE SignOfDifference(needsLoveRatio(b), needsLoveRatio(a))

\* The comparator of getTopOriginsThatNeedSomeLove, by its sign.
LoveCompare(a, b) ==
    LET needsLoveRatioA == needsLoveRatio(a)
        needsLoveRatioB == needsLoveRatio(b)
        ratioComparison == Div(needsLoveRatioA, needsLoveRatioB)
    IN  IF InLoveWindow(ratioComparison)
        THEN IF a.originVisitData.numberOfVisits > b.originVisitData.numberOfVisits
             THEN 1
             ELSE -1
        ELSE SignOfDifference(needsLoveRatioA, needsLoveRatioB)

Functions == { "byTimeSpent", "needSomeLove" }

Compare(f, a, b) == IF f = "byTimeSpent" THEN TimeCompare(a, b) ELSE LoveCompare(a, b)

Front(s) == SubSeq(s, 1, Len(s) - 1)

RECURSIVE Reverse(_)
Reverse(s) == IF s = <<>> THEN <<>> ELSE Append(Reverse(Tail(s)), Head(s))

InsertAt(s, i, x) == SubSeq(s, 1, i - 1) \o <<x>> \o SubSeq(s, i, Len(s))

\* SpiderMonkey's InsertionSort: the item moves down past every element the
\* comparator puts after it, comparefn(element, item) > 0.
RECURSIVE SMInsert(_, _, _)
SMInsert(f, sorted, item) ==
    IF sorted = <<>> \/ Compare(f, sorted[Len(sorted)], item) <= 0
    THEN Append(sorted, item)
    ELSE Append(SMInsert(f, Front(sorted), item), sorted[Len(sorted)])

RECURSIVE SMSort(_, _, _)
SMSort(f, sorted, rest) ==
    IF rest = <<>> THEN sorted
    ELSE SMSort(f, SMInsert(f, sorted, Head(rest)), Tail(rest))

\* V8's CountAndMakeRun: the length of the run the array starts with, which
\* descends when comparefn(a[1], a[0]) < 0.
RECURSIVE V8RunEnd(_, _, _, _)
V8RunEnd(f, a, descending, idx) ==
    IF idx > Len(a) THEN Len(a)
    ELSE LET order == Compare(f, a[idx], a[idx - 1])
         IN  IF (descending /\ order >= 0) \/ (~descending /\ order < 0)
             THEN idx - 1
             ELSE V8RunEnd(f, a, descending, idx + 1)

\* V8's BinaryInsertionSort: the place of the pivot among a[1..start-1], by
\* bisection on comparefn(pivot, a[mid]).
RECURSIVE V8Bisect(_, _, _, _, _)
V8Bisect(f, a, pivot, left, right) ==
    IF left >= right THEN left
    ELSE LET mid == left + ((right - left) \div 2)
         IN  IF Compare(f, pivot, a[mid]) < 0
             THEN V8Bisect(f, a, pivot, left, mid)
             ELSE V8Bisect(f, a, pivot, mid + 1, right)

RECURSIVE V8Insertions(_, _, _)
V8Insertions(f, a, start) ==
    IF start > Len(a) THEN a
    ELSE LET pivot == a[start]
             left == V8Bisect(f, a, pivot, 1, start)
             moved == InsertAt(SubSeq(a, 1, start - 1), left, pivot)
                          \o SubSeq(a, start + 1, Len(a))
         IN  V8Insertions(f, moved, start + 1)

V8Sort(f, a) ==
    LET descending == Compare(f, a[2], a[1]) < 0
        runLength == V8RunEnd(f, a, descending, 3)
        run == IF descending THEN Reverse(SubSeq(a, 1, runLength)) ELSE SubSeq(a, 1, runLength)
    IN  V8Insertions(f, run \o SubSeq(a, runLength + 1, Len(a)), runLength + 1)

\* items.sort(comparator of f) on an array of more than one element.
Sort(e, f, items) ==
    IF Len(items) < 2 THEN items
    ELSE IF e = "v8" THEN V8Sort(f, items) ELSE SMSort(f, <<>>, items)

-----------------------------------------------------------------------------
(* Number.prototype.toFixed(2) and the helpers built on it.                *)

DigitChars == << "0", "1", "2", "3", "4", "5", "6", "7", "8", "9" >>

RECURSIVE NatToChars(_)
NatToChars(n) ==
    IF n < 10 THEN << DigitChars[n + 1] >>
    ELSE Append(NatToChars(n \div 10), DigitChars[(n % 10) + 1])

\* The decimal text of h hundredths: the integer part, a point, two digits.
FixedChars(h) ==
    NatToChars(h \div 100) \o << ".", DigitChars[((h \div 10) % 10) + 1], DigitChars[(h % 10) + 1] >>

RECURSIVE GCD(_, _)
GCD(a, b) == IF b = 0 THEN a ELSE GCD(b, a % b)

\* 100 * number
TimesHundred(number) ==
    IF number.k # "fin" THEN number
    ELSE LET g == GCD(100, number.den)
         IN  Rat((100 \div g) * number.num, number.den \div g)

\* x * y
Times(x, y) ==
    CASE x.k = "nan" \/ y.k = "nan" -> NaN
      [] x.k = "inf" \/ y.k = "inf" ->
             IF (x.k = "fin" /\ x.num = 0) \/ (y.k = "fin" /\ y.num = 0) THEN NaN ELSE Infinity
      [] OTHER -> Rat(x.num * y.num, x.den * y.den)

\* ToNumber of a field: a missing field reads as undefined, which is NaN.
ToNumber(v) ==
    CASE v.tag = "undefined" -> NaN
      [] v.tag = "null" -> Num(0)
      [] OTHER -> v

\* The strings number.toFixed(2) can be.  The hundredths are those nearest
\* to the number; a number that is in decimal exactly halfway between two
\* has a double to one side or the other of the halfway point (or on it, and
\* then toFixed takes the larger), which the exact value does not tell.
toFixed(number) ==
    CASE number.k = "nan" -> { Str(<< "N", "a", "N" >>) }
      [] number.k = "inf" -> { Str(<< "I", "n", "f", "i", "n", "i", "t", "y" >>) }
      [] OTHER ->
             LET scaled == TimesHundred(number)
                 down == scaled.num \div scaled.den
                 rest == scaled.num % scaled.den
             IN  IF 2 * rest < scaled.den THEN { Str(FixedChars(down)) }
                 ELSE IF 2 * rest > scaled.den THEN { Str(FixedChars(down + 1)) }
                 ELSE { Str(FixedChars(down)), Str(FixedChars(down + 1)) }

isNaN(number) == number.k = "nan"

unNaN(number) == IF isNaN(number) THEN Num(0) ELSE number

toPercent(number) == toFixed(unNaN(TimesHundred(number)))

\* Number.parseFloat of a number: the number's own text, read back.  "NaN"
\* starts no decimal literal, "Infinity" is one, and the text of a finite
\* number is the shortest that reads back as that number.
parseFloat(number) ==
    CASE number.k = "nan" -> NaN
      [] number.k = "inf" -> Infinity
      [] OTHER -> number

STREAM_RATE_PER_SECOND == Rat(1, 10000)

STREAM_RATE_PER_MILLISECOND == Rat(1, 10000000)

\* A record of the data layer whose fields are JS values (a field may be
\* missing: undefined).
Record(o, t, v) ==
    [tag |-> "object", origin |-> o,
     originVisitData |-> [monetizedTimeSpent |-> t, numberOfVisits |-> v]]

Stats(totalTimeSpent, totalMonetizedTimeSpent, totalVisits, totalSentAssetsMap) ==
    [tag |-> "object", totalTimeSpent |-> totalTimeSpent,
     totalMonetizedTimeSpent |-> totalMonetizedTimeSpent,
     totalVisits |-> totalVisits, totalSentAssetsMap |-> totalSentAssetsMap]

\* A plain object, by its own enumerable keys.
Object(keys) == [tag |-> "object", keys |-> keys]

\* The values the function can return for what loadOriginData resolved to.
getEstimatedPaymentForOriginUSD(originData) ==
    IF Truthy(originData)
    THEN LET monetizedTimeSpent == ToNumber(originData.originVisitData.monetizedTimeSpent)
         IN  toFixed(unNaN(parseFloat(Times(monetizedTimeSpent, STREAM_RATE_PER_MILLISECOND))))
    ELSE { Num(0) }

getPercentTimeSpentAtOriginOutOfTotal(originData, originStats) ==
    IF ~Truthy(originData) \/ ~Truthy(originStats) THEN { Num(0) }
    ELSE LET monetizedTimeSpent == ToNumber(originData.originVisitData.monetizedTimeSpent)
             totalTimeSpent == ToNumber(originStats.totalTimeSpent)
         IN  toPercent(Div(monetizedTimeSpent, totalTimeSpent))

getPercentVisitsToOriginOutOfTotal(originData, originStats) ==
    IF ~Truthy(originData) \/ ~Truthy(originStats) \/ originStats.totalVisits = Num(0)
    THEN { Num(0) }
    ELSE toPercent(Div(ToNumber(originData.originVisitData.numberOfVisits),
                       ToNumber(originStats.totalVisits)))

getMonetizedTimeSpentPercent(originStats) ==
    IF ~Truthy(originStats) \/ originStats.totalTimeSpent = Num(0)
    THEN { Num(0) }
    ELSE toPercent(Div(ToNumber(originStats.totalMonetizedTimeSpent),
                       ToNumber(originStats.totalTimeSpent)))

hasUsedWebMonetizationProviderAnyMap(originStats) ==
    IF ~Truthy(originStats) THEN originStats
    ELSE IF ~Truthy(originStats.totalSentAssetsMap) THEN originStats.totalSentAssetsMap
    ELSE Bool(TRUE)

\* a && b && c: the first falsy operand, or the last.
hasUsedWebMonetizationProvider(originStats) ==
    IF ~Truthy(originStats) THEN originStats
    ELSE IF ~Truthy(originStats.totalSentAssetsMap) THEN originStats.totalSentAssetsMap
    ELSE Bool(Cardinality(originStats.totalSentAssetsMap.keys) # 0)

-----------------------------------------------------------------------------
(* The two top-origins functions.  Each is an async function with one      *)
(* await: the call runs to the await, and when the Data Provider's promise *)
(* resolves the rest of the body runs without a break.                     *)

Calls == { "c1", "c2" }

\* The value of a variable that refers to the array originDataList refers to.
SameList == [tag |-> "originDataList"]

Min(a, b) == IF a < b THEN a ELSE b

\* if (originDataList): an array, empty or not, is an object and so truthy.
ListIsFalsyWhenEmpty(originDataList) ==
    Truthy(originDataList) /\ (originDataList.tag = "list" => originDataList.items # <<>>)

ListIsTruthy(originDataList) == Truthy(originDataList)

\* originDataList.length > 1
MoreThanOne(originDataList) == Len(originDataList.items) > 1

\* originDataList.slice(0, listSize): a new array.
Slice(items, listSize) == List(SubSeq(items, 1, listSize))

\* The body both functions share after the await, for the comparator of f:
\* what originDataList refers to afterwards, and the value returned.
TopOrigins(e, f, originDataList, nTopOrigins_) ==
    IF ListIsTruthy(originDataList)
    THEN IF MoreThanOne(originDataList)
         THEN LET sorted == Sort(e, f, originDataList.items)
                  listSize == Min(nTopOrigins_, Len(sorted))
              IN  [originDataList |-> List(sorted), topOriginsList |-> Slice(sorted, listSize)]
         ELSE [originDataList |-> originDataList, topOriginsList |-> SameList]
    ELSE [originDataList |-> originDataList, topOriginsList |-> Null]

getTopOriginsByTimeSpent(e, originDataList, nTopOrigins_) ==
    TopOrigins(e, "byTimeSpent", originDataList, nTopOrigins_)

getTopOriginsThatNeedSomeLove(e, originDataList, nTopOrigins_) ==
    TopOrigins(e, "needSomeLove", originDataList, nTopOrigins_)

\* The Data Provider: every call of getOriginDataList resolves to an array
\* built for that call from what the provider holds (or to null).
getOriginDataList == store

\* The array the variable originDataList of call c refers to: the one its own
\* getOriginDataList() resolved to.
originDataListOfFirstCall(c) == "c1"

originDataListOf(c) == c

\* The call starts: it runs to `await getOriginDataList()`.
Call(c, f, n) ==
    /\ pc[c] \in { "idle", "done" }
    /\ pc' = [pc EXCEPT ![c] = "awaiting"]
    /\ fn' = [fn EXCEPT ![c] = f]
    /\ nTopOrigins' = [nTopOrigins EXCEPT ![c] = n]
    /\ heap' = [heap EXCEPT ![c] = Undefined]
    /\ result' = [result EXCEPT ![c] = Undefined]
    /\ UNCHANGED <<store, engine, pure>>

\* The provider's promise resolves and the rest of the body runs.
Resume(c) ==
    /\ pc[c] = "awaiting"
    /\ LET resolved == [heap EXCEPT ![c] = getOriginDataList]
           ref == originDataListOf(c)
           out == IF fn[c] = "byTimeSpent"
                  THEN getTopOriginsByTimeSpent(engine, resolved[ref], nTopOrigins[c])
                  ELSE getTopOriginsThatNeedSomeLove(engine, resolved[ref], nTopOrigins[c])
       IN  /\ heap' = [resolved EXCEPT ![ref] = out.originDataList]
           /\ result' = [result EXCEPT ![c] = out.topOriginsList]
    /\ pc' = [pc EXCEPT ![c] = "done"]
    /\ UNCHANGED <<store, engine, fn, nTopOrigins, pure>>

NoPure == [fn |-> "none"]

InitCalls ==
    /\ pc = [c \in Calls |-> "idle"]
    /\ fn = [c \in Calls |-> "byTimeSpent"]
    /\ nTopOrigins = [c \in Calls |-> 0]
    /\ heap = [c \in Calls |-> Undefined]
    /\ result = [c \in Calls |-> Undefined]

\* One caller at a time, lists of up to MaxLen origins.
Init ==
    /\ store \in { Null } \cup { List(l) : l \in OriginLists(MaxLen) }
    /\ engine \in Engines
    /\ InitCalls
    /\ pure = NoPure

Next ==
    \/ \E f \in Functions, n \in 0..(MaxLen + 1) : Call("c1", f, n)
    \/ Resume("c1")

Spec == Init /\ [][Next]_vars

\* Two callers whose calls interleave at their awaits, lists of up to
\* MaxConcLen origins.
InitConc ==
    /\ store \in { Null } \cup { List(l) : l \in OriginLists(MaxConcLen) }
    /\ engine \in Engines
    /\ InitCalls
    /\ pure = NoPure

NextConc ==
    \/ \E c \in Calls, f \in Functions, n \in 0..(MaxConcLen + 1) : Call(c, f, n)
    \/ \E c \in Calls : Resume(c)

SpecConc == InitConc /\ [][NextConc]_vars

-----------------------------------------------------------------------------
(* What the claims about the top-origins functions speak of.               *)

Range(q) == { q[i] : i \in 1..Len(q) }

Done(c, f) == pc[c] = "done" /\ fn[c] = f

Supplied == store.items

SuppliedAtLeast(k) == store.tag = "list" /\ Len(store.items) >= k

TimeOf(a) == a.originVisitData.monetizedTimeSpent

VisitsOf(a) == a.originVisitData.numberOfVisits

\* The array a finished call returned, whether a new one or the fetched one.
ReturnedValue(c) == IF result[c] = SameList THEN heap[c] ELSE result[c]

\* out holds min(n, length) distinct entries of the supplied list.
IsTopOfSupplied(out, n) ==
    /\ out.tag = "list"
    /\ Len(out.items) = Min(n, Len(Supplied))
    /\ Range(out.items) \subseteq Range(Supplied)
    /\ \A i, j \in 1..Len(out.items) : i # j => out.items[i] # out.items[j]

Omitted(out) == Range(Supplied) \ Range(out.items)

\* The smaller need ratio divided by the larger lies in [0.75, 1].
Close(a, b) ==
    LET ra == needsLoveRatio(a)
        rb == needsLoveRatio(b)
        q == IF Leq(ra, rb) THEN Div(ra, rb) ELSE Div(rb, ra)
    IN  Geq(q, Rat(3, 4)) /\ Leq(q, Rat(1, 1))

\* The smaller need ratio divided by the larger is below 0.75.
Apart(a, b) ==
    LET ra == needsLoveRatio(a)
        rb == needsLoveRatio(b)
        q == IF Leq(ra, rb) THEN Div(ra, rb) ELSE Div(rb, ra)
    IN  IsFinite(q) /\ ~Geq(q, Rat(3, 4))

RatioBelow(a, b) == SignOfDifference(needsLoveRatio(a), needsLoveRatio(b)) < 0

AllVisited == \A a \in Range(Supplied) : VisitsOf(a) > 0

\* C1: for a supplied list of at least 2 entries and every n >= 0,
\* getTopOriginsByTimeSpent(n) returns exactly min(n, length) entries of the
\* supplied list, in non-increasing order of monetizedTimeSpent, and no
\* omitted entry has a strictly larger monetizedTimeSpent than a returned one.
C1_TopByTimeSpent ==
    \A c \in Calls :
        (Done(c, "byTimeSpent") /\ SuppliedAtLeast(2)) =>
            /\ IsTopOfSupplied(result[c], nTopOrigins[c])
            /\ \A i \in 1..(Len(result[c].items) - 1) :
                   TimeOf(result[c].items[i]) >= TimeOf(result[c].items[i + 1])
            /\ \A x \in Omitted(result[c]), y \in Range(result[c].items) :
                   TimeOf(x) <= TimeOf(y)

\* A list of three whose first entry is not the largest, cut to two.
C1_Witness ==
    /\ Done("c1", "byTimeSpent")
    /\ SuppliedAtLeast(3)
    /\ TimeOf(Supplied[1]) < TimeOf(Supplied[2])
    /\ TimeOf(Supplied[2]) < TimeOf(Supplied[3])
    /\ nTopOrigins["c1"] = 2
    /\ result["c1"].tag = "list"
    /\ Len(result["c1"].items) = 2

\* C2 as stated: getTopOriginsByTimeSpent(n) returns the provider's list
\* unchanged when it has exactly one entry, and null when the provider's list
\* is null or empty.
C2_AsStated ==
    \A c \in Calls :
        Done(c, "byTimeSpent") =>
            /\ (store.tag = "list" /\ Len(Supplied) = 1) =>
                   (result[c] = SameList /\ heap[c] = store)
            /\ (store = Null \/ (store.tag = "list" /\ Len(Supplied) = 0)) =>
                   result[c] = Null

\* C2, amended: getTopOriginsByTimeSpent(n) returns the provider's list
\* unchanged when it has exactly one entry or none, and null when the
\* provider's list is null.
C2_SingleEmptyNull ==
    \A c \in Calls :
        Done(c, "byTimeSpent") =>
            /\ (store.tag = "list" /\ Len(Supplied) <= 1) =>
                   (result[c] = SameList /\ heap[c] = store)
            /\ store = Null => result[c] = Null

\* The empty list came back, as the same array.
C2_Witness ==
    /\ Done("c1", "byTimeSpent")
    /\ store = List(<<>>)
    /\ result["c1"] = SameList
    /\ ReturnedValue("c1") = List(<<>>)

\* C3 as stated: of two origins with positive visits, close need ratios and
\* different visit counts, getTopOriginsThatNeedSomeLove places the one with
\* fewer visits first, whichever has the smaller ratio and in whichever
\* order the Data Provider lists the two.
C3_FewerVisitsFirst ==
    \A c \in Calls :
        ( /\ Done(c, "needSomeLove")
          /\ store.tag = "list"
          /\ Len(Supplied) = 2
          /\ AllVisited
          /\ Close(Supplied[1], Supplied[2])
          /\ VisitsOf(Supplied[1]) # VisitsOf(Supplied[2])
          /\ nTopOrigins[c] >= 2 ) =>
            /\ result[c].tag = "list"
            /\ Len(result[c].items) = 2
            /\ VisitsOf(result[c].items[1]) < VisitsOf(result[c].items[2])

\* C4: for a supplied list of at least 2 origins with positive visits in
\* which no two need ratios are close, and every n >= 0,
\* getTopOriginsThatNeedSomeLove(n) returns the first min(n, length) entries
\* of the list in strictly ascending order of need ratio.
C4_AscendingRatio ==
    \A c \in Calls :
        ( /\ Done(c, "needSomeLove")
          /\ SuppliedAtLeast(2)
          /\ AllVisited
          /\ \A i, j \in 1..Len(Supplied) : i # j => Apart(Supplied[i], Supplied[j]) ) =>
            /\ IsTopOfSupplied(result[c], nTopOrigins[c])
            /\ \A i \in 1..(Len(result[c].items) - 1) :
                   RatioBelow(result[c].items[i], result[c].items[i + 1])
            /\ \A x \in Omitted(result[c]), y \in Range(result[c].items) :
                   RatioBelow(y, x)

\* Three origins, none close to another, listed by descending ratio, cut to two.
C4_Witness ==
    /\ Done("c1", "needSomeLove")
    /\ SuppliedAtLeast(3)
    /\ AllVisited
    /\ \A i, j \in 1..Len(Supplied) : i # j => Apart(Supplied[i], Supplied[j])
    /\ RatioBelow(Supplied[2], Supplied[1])
    /\ RatioBelow(Supplied[3], Supplied[2])
    /\ nTopOrigins["c1"] = 2
    /\ result["c1"].tag = "list"
    /\ Len(result["c1"].items) = 2

\* C8 as stated: after getTopOriginsByTimeSpent(n) or
\* getTopOriginsThatNeedSomeLove(n) returns, the list object getOriginDataList
\* returned has the element order and contents it had before the call.
C8_ListUntouched ==
    \A c \in Calls : pc[c] = "done" => heap[c] = store

\* What a call returns when it is the only call there is.
RunAlone(f, n) ==
    LET out == IF f = "byTimeSpent"
               THEN getTopOriginsByTimeSpent(engine, store, n)
               ELSE getTopOriginsThatNeedSomeLove(engine, store, n)
    IN  IF out.topOriginsList = SameList THEN out.originDataList ELSE out.topOriginsList

-----------------------------------------------------------------------------
(* The synchronous helpers and the payment estimate, each called on the    *)
(* inputs the data layer can hand it.  A behaviour is one call.            *)

\* monetizedTimeSpent values (ms): around every multiple of half a cent's
\* worth of time, and the hour and ten hours of the rate's definition.
PaymentTimes ==
    { t \in { k * 50000 + d : k \in 0..MaxHalfCents, d \in { -1, 0, 1 } } : t >= 0 }
        \cup { 3600000, 36000000 }

\* What loadOriginData can resolve to.
LoadedOriginData ==
    { Null } \cup { Record(1, t, Num(1)) : t \in { Undefined } \cup { Num(t) : t \in PaymentTimes } }

StatValues == { Num(i) : i \in 0..MaxStat }

OriginDataArgs == { Null } \cup { Record(1, t, v) : t \in StatValues, v \in StatValues }

OriginStatsArgs ==
    { Null } \cup { Stats(tt, tm, tv, Undefined) :
                        tt \in StatValues \cup { Undefined },
                        tm \in StatValues \cup { Undefined },
                        tv \in StatValues \cup { Undefined } }

AssetMaps == { Undefined, Null } \cup { Object(keys) : keys \in SUBSET { "USD", "XRP" } }

WalletStatsArgs == { Undefined, Null } \cup { Stats(Num(0), Num(0), Num(0), m) : m \in AssetMaps }

\* The record of a helper's call: its name, what it was given, what it returned.
PureCall(name, originData, originStats, ret) ==
    [fn |-> name, originData |-> originData, originStats |-> originStats, ret |-> ret]

EstimatePayment ==
    /\ pure = NoPure
    /\ \E originData \in LoadedOriginData :
           \E ret \in getEstimatedPaymentForOriginUSD(originData) :
               pure' = PureCall("getEstimatedPaymentForOriginUSD", originData, Undefined, ret)
    /\ UNCHANGED <<store, engine, pc, fn, nTopOrigins, heap, result>>

PercentTimeSpent ==
    /\ pure = NoPure
    /\ \E originData \in OriginDataArgs, originStats \in OriginStatsArgs :
           \E ret \in getPercentTimeSpentAtOriginOutOfTotal(originData, originStats) :
               pure' = PureCall("getPercentTimeSpentAtOriginOutOfTotal", originData, originStats, ret)
    /\ UNCHANGED <<store, engine, pc, fn, nTopOrigins, heap, result>>

PercentVisits ==
    /\ pure = NoPure
    /\ \E originData \in OriginDataArgs, originStats \in OriginStatsArgs :
           \E ret \in getPercentVisitsToOriginOutOfTotal(originData, originStats) :
               pure' = PureCall("getPercentVisitsToOriginOutOfTotal", originData, originStats, ret)
    /\ UNCHANGED <<store, engine, pc, fn, nTopOrigins, heap, result>>

MonetizedPercent ==
    /\ pure = NoPure
    /\ \E originStats \in OriginStatsArgs :
           \E ret \in getMonetizedTimeSpentPercent(originStats) :
               pure' = PureCall("getMonetizedTimeSpentPercent", Undefined, originStats, ret)
    /\ UNCHANGED <<store, engine, pc, fn, nTopOrigins, heap, result>>

HasUsedProvider ==
    /\ pure = NoPure
    /\ \E originStats \in WalletStatsArgs :
           pure' = PureCall("hasUsedWebMonetizationProvider", Undefined, originStats,
                            hasUsedWebMonetizationProvider(originStats))
    /\ UNCHANGED <<store, engine, pc, fn, nTopOrigins, heap, result>>

InitPure ==
    /\ store = Null
    /\ engine = "v8"
    /\ InitCalls
    /\ pure = NoPure

NextPure ==
    \/ EstimatePayment
    \/ PercentTimeSpent
    \/ PercentVisits
    \/ MonetizedPercent
    \/ HasUsedProvider

SpecPure == InitPure /\ [][NextPure]_vars

-----------------------------------------------------------------------------
(* What the claims about the helpers speak of.                             *)

DigitOf(ch) == CHOOSE d \in 0..9 : DigitChars[d + 1] = ch

RECURSIVE CharsToNat(_)
CharsToNat(chars) ==
    IF chars = <<>> THEN 0
    ELSE 10 * CharsToNat(SubSeq(chars, 1, Len(chars) - 1)) + DigitOf(chars[Len(chars)])

\* Digits, a point, two digits; no leading zero but a lone one.
IsTwoDecimal(x) ==
    /\ x.tag = "string"
    /\ Len(x.chars) >= 4
    /\ x.chars[Len(x.chars) - 2] = "."
    /\ \A i \in 1..Len(x.chars) : i # Len(x.chars) - 2 => x.chars[i] \in Range(DigitChars)
    /\ Len(x.chars) > 4 => x.chars[1] # "0"

\* The hundredths a two-decimal string stands for.
HundredthsOf(x) ==
    100 * CharsToNat(SubSeq(x.chars, 1, Len(x.chars) - 3))
        + CharsToNat(SubSeq(x.chars, Len(x.chars) - 1, Len(x.chars)))

ZeroString == Str(<< "0", ".", "0", "0" >>)

Called(name) == pure.fn = name

TimeGiven == pure.originData.originVisitData.monetizedTimeSpent

\* C5: for an origin with data and a non-negative integer monetizedTimeSpent
\* t (ms), getEstimatedPaymentForOriginUSD returns the 2-decimal string of
\* t * 0.0000001 USD, that is t / 100000 cents rounded to the nearest cent;
\* 36,000,000 ms gives "3.60" and one hour (3,600,000 ms) gives "0.36".
C5_PaymentNearestCent ==
    ( /\ Called("getEstimatedPaymentForOriginUSD")
      /\ pure.originData # Null
      /\ TimeGiven.tag = "number" ) =>
        LET t == TimeGiven.num
            cents == HundredthsOf(pure.ret)
        IN  /\ IsTwoDecimal(pure.ret)
            /\ cents \in { t \div 100000, (t \div 100000) + 1 }
            /\ cents = t \div 100000 => t % 100000 <= 50000
            /\ cents = (t \div 100000) + 1 => t % 100000 >= 50000
            /\ t = 36000000 => pure.ret = Str(<< "3", ".", "6", "0" >>)
            /\ t = 3600000 => pure.ret = Str(<< "0", ".", "3", "6" >>)

\* Ten hours of monetized time came back as "3.60".
C5_Witness ==
    /\ Called("getEstimatedPaymentForOriginUSD")
    /\ pure.originData # Null
    /\ TimeGiven = Num(36000000)
    /\ pure.ret = Str(<< "3", ".", "6", "0" >>)

\* C6 as stated: getEstimatedPaymentForOriginUSD returns "0.00" both when
\* loadOriginData yields no data and when monetizedTimeSpent * rate is
\* not-a-number, and its return value is a 2-decimal string on every path.
C6_ZeroStringOnEveryPath ==
    Called("getEstimatedPaymentForOriginUSD") =>
        /\ IsTwoDecimal(pure.ret)
        /\ pure.originData = Null => pure.ret = ZeroString
        /\ (pure.originData # Null /\ TimeGiven = Undefined) => pure.ret = ZeroString

PercentHelpers ==
    { "getPercentTimeSpentAtOriginOutOfTotal", "getPercentVisitsToOriginOutOfTotal",
      "getMonetizedTimeSpentPercent" }

\* An input of the helper called is missing, or its denominator is zero.
MissingOrZeroDenominator ==
    \/ pure.originStats = Null
    \/ pure.fn # "getMonetizedTimeSpentPercent" /\ pure.originData = Null
    \/ pure.fn = "getPercentVisitsToOriginOutOfTotal" /\ pure.originStats.totalVisits = Num(0)
    \/ pure.fn # "getPercentVisitsToOriginOutOfTotal" /\ pure.originStats.totalTimeSpent = Num(0)

\* C7 as stated: every percentage helper returns the neutral default, 0 or
\* "0.00", whenever an input is missing or its denominator (totalTimeSpent
\* or totalVisits) is zero, for every non-negative numerator; it never
\* returns a non-finite or not-a-number value.
C7_NeutralDefault ==
    (pure.fn \in PercentHelpers) =>
        /\ pure.ret = Num(0) \/ IsTwoDecimal(pure.ret)
        /\ MissingOrZeroDenominator => pure.ret \in { Num(0), ZeroString }

\* stats exists, its totalSentAssetsMap exists and has at least one key.
HasSentAssets(originStats) ==
    /\ originStats.tag = "object"
    /\ originStats.totalSentAssetsMap.tag = "object"
    /\ originStats.totalSentAssetsMap.keys # {}

\* C10: hasUsedWebMonetizationProvider(stats) is true exactly when stats
\* exists, its totalSentAssetsMap exists and that map has at least one key;
\* it is falsy for missing stats, a missing or null map, and an empty map.
C10_HasUsedProvider ==
    Called("hasUsedWebMonetizationProvider") =>
        /\ pure.ret = Bool(TRUE) <=> HasSentAssets(pure.originStats)
        /\ ~HasSentAssets(pure.originStats) => ~Truthy(pure.ret)

\* The empty map gave false.
C10_Witness ==
    /\ Called("hasUsedWebMonetizationProvider")
    /\ pure.originStats # Null
    /\ pure.originStats # Undefined
    /\ pure.originStats.totalSentAssetsMap = Object({})
    /\ pure.ret = Bool(FALSE)

=============================================================================
